---- MODULE Spec2Model ----
(***************************************************************************)
(* The append-only data aggregate of src/append_only_data.rs:              *)
(* AppendOnlyData<P, S> with its entry sequence, owner history and         *)
(* permission history, the two append disciplines (Seq, Unseq), the two    *)
(* permission flavours (Pub, Unpub) and the access evaluator.              *)
(*                                                                         *)
(* Option<T> is modelled as a sequence of length <= 1: <<>> is None and    *)
(* <<x>> is Some(x).  Result<(), Error> is a record whose tag is "Ok" or   *)
(* the name of the Error variant, with the variant's payload beside it.    *)
(* Vec offsets are 0-based as in the source; TLA+ sequences are 1-based,   *)
(* so Vec offset i is sequence position i + 1.  Counts and indices are u64 *)
(* and usize in the source; every value here is far below 2^32, so the     *)
(* casts between them keep the value.                                      *)
(*                                                                         *)
(* The aggregate is owned by one caller and every operation is synchronous *)
(* (one step).  call, result and pre record the operation just made, its   *)
(* return value and the aggregate it was made on; Return is the caller     *)
(* taking the result, after which the next operation can be called.        *)
(* prepared holds the owner and permission proposals that the aggregate    *)
(* would have accepted when a caller last prepared them, with the counts   *)
(* of that moment: what a replica submits after other appends went first.  *)
(***************************************************************************)
EXTENDS Integers, Sequences, FiniteSets, TLC

VARIABLES
    address,      \* AppendOnlyData.address
    data,         \* AppendOnlyData.data
    permissions,  \* AppendOnlyData.permissions
    owners,       \* AppendOnlyData.owners
    call,         \* the operation being called, with its arguments
    result,       \* what that call returned
    pre,          \* the aggregate as it was when that call was made
    prepared      \* the proposals a caller prepared against an earlier state

vars == <<address, data, permissions, owners, call, result, pre, prepared>>

(***************************************************************************)
(* Bounds of the model.                                                    *)
(***************************************************************************)
\* Longest batch handed to append.
MaxBatch == 2
\* Most records the owner history and the permission history hold together.
MaxHistory == 2
\* Largest index (anchor, expected position, expected count) a caller passes.
MaxIdx == 2
\* Longest sequence an index is resolved against on its own.
MaxCount == 3

EntryKeys == {1, 2, 3}
EntryValues == {1, 2}
PublicKeys == {1, 2}
Indexes == 0..MaxIdx

(***************************************************************************)
(* Types of the source.                                                    *)
(***************************************************************************)
\* enum User { Anyone, Key(PublicKey) }: Key(k) is k, Anyone is 0.
Anyone == 0

Key(public_key) == public_key

\* enum Action
Action == {"Read", "Append", "ManagePermissions"}

\* enum Kind
Kind == {"PubSeq", "PubUnseq", "UnpubSeq", "UnpubUnseq"}

is_pub(kind) == kind = "PubSeq" \/ kind = "PubUnseq"

is_seq(kind) == kind = "PubSeq" \/ kind = "UnpubSeq"

\* enum Index
FromStart(i) == [tag |-> "FromStart", i |-> i]

FromEnd(i) == [tag |-> "FromEnd", i |-> i]

\* struct Entry
Entry == [key : EntryKeys, value : EntryValues]

\* Option<T>
None == <<>>

Some(x) == <<x>>

\* Result<()> and the Error variants the aggregate returns.
Ok == [tag |-> "Ok"]

InvalidSuccessor(n) == [tag |-> "InvalidSuccessor", n |-> n]

InvalidOwnersSuccessor(n) == [tag |-> "InvalidOwnersSuccessor", n |-> n]

InvalidPermissionsSuccessor(n) == [tag |-> "InvalidPermissionsSuccessor", n |-> n]

DuplicateEntryKeys == [tag |-> "DuplicateEntryKeys"]

KeysExist(dup) == [tag |-> "KeysExist", dup |-> dup]

AccessDenied == [tag |-> "AccessDenied"]

InvalidPermissions == [tag |-> "InvalidPermissions"]

InvalidOwners == [tag |-> "InvalidOwners"]

NoSuchEntry == [tag |-> "NoSuchEntry"]

NoSuchData == [tag |-> "NoSuchData"]

\* Ok(value) of a Result<T>.
OkOf(value) == [tag |-> "Ok", value |-> value]

\* An index out of bounds in a slice expression: the thread panics.
Panic == [tag |-> "panic"]

\* struct UnpubPermissionSet
UnpubPermissionSet == [read : BOOLEAN, append : BOOLEAN, manage_permissions : BOOLEAN]

\* struct PubPermissionSet: each field an Option<bool>
PubPermissionSet == [append : {None, Some(TRUE), Some(FALSE)},
                     manage_permissions : {None, Some(TRUE), Some(FALSE)}]

(***************************************************************************)
(* Counts.                                                                 *)
(***************************************************************************)
entries_index == Len(data)

owners_index == Len(owners)

permissions_index == Len(permissions)

(***************************************************************************)
(* Index resolution.                                                       *)
(***************************************************************************)
\* to_absolute_index taking an offset only below count.
to_absolute_index_strict(index, count) ==
    IF index.tag = "FromStart"
    THEN IF index.i < count THEN Some(index.i) ELSE None
    ELSE IF index.i <= count THEN Some(count - index.i) ELSE None

to_absolute_index(index, count) ==
    IF index.tag = "FromStart"
    THEN IF index.i <= count THEN Some(index.i) ELSE None
    ELSE IF index.i <= count THEN Some(count - index.i) ELSE None

\* to_absolute_range without the comparison of start and end.
to_absolute_range_unordered(start, end, count) ==
    LET s == to_absolute_index(start, count)
        e == to_absolute_index(end, count)
    IN  IF s = None \/ e = None THEN None
        ELSE Some([start |-> s[1], end |-> e[1]])

\* The Range<usize> start..end is the record [start, end].
to_absolute_range(start, end, count) ==
    LET s == to_absolute_index(start, count)
        e == to_absolute_index(end, count)
    IN  IF s = None \/ e = None THEN None
        ELSE IF s[1] <= e[1] THEN Some([start |-> s[1], end |-> e[1]])
        ELSE None

\* vec[range]: the elements at the offsets range.start .. range.end - 1; the
\* expression panics when the range is not inside the vector.
Slice(vec, range) ==
    IF range.start > range.end \/ range.end > Len(vec)
    THEN [ok |-> FALSE]
    ELSE [ok |-> TRUE, slice |-> SubSeq(vec, range.start + 1, range.end)]

\* A range query's Option<slice>, as the caller sees it.
RangeOf(vec, start, end) ==
    LET range == to_absolute_range(start, end, Len(vec))
    IN  IF range = None THEN [tag |-> "None"]
        ELSE LET sl == Slice(vec, range[1])
             IN  IF sl.ok THEN [tag |-> "Some", value |-> sl.slice] ELSE Panic

in_range(start, end) == RangeOf(data, start, end)

owners_range(start, end) == RangeOf(owners, start, end)

permissions_range(start, end) == RangeOf(permissions, start, end)

\* Vec::get: the element at a 0-based offset, if there is one.
\* Vec::get giving the last element for an offset past the end.
\* get: the value of the first stored entry with the key, if there is one.
get(key) ==
    LET found == SelectSeq(data, LAMBDA entry : entry.key = key)
    IN  IF found = <<>> THEN None ELSE Some(found[1].value)

VecGet_saturating(vec, i) ==
    IF vec = <<>> THEN None
    ELSE IF i < Len(vec) THEN Some(vec[i + 1])
    ELSE Some(vec[Len(vec)])

VecGet(vec, i) == IF i < Len(vec) THEN Some(vec[i + 1]) ELSE None

owner(index) ==
    LET i == to_absolute_index(index, Len(owners))
    IN  IF i = None THEN None ELSE VecGet(owners, i[1])

permissions_at(index) ==
    LET i == to_absolute_index(index, Len(permissions))
    IN  IF i = None THEN None ELSE VecGet(permissions, i[1])

(***************************************************************************)
(* Permission evaluation.                                                  *)
(***************************************************************************)
\* is_allowed letting nobody append who may not read.
UnpubPermissionSet_is_allowed_read_first(perms, action) ==
    CASE action = "Read" -> perms.read
      [] action = "Append" -> perms.read /\ perms.append
      [] action = "ManagePermissions" -> perms.manage_permissions

UnpubPermissionSet_is_allowed(perms, action) ==
    CASE action = "Read" -> perms.read
      [] action = "Append" -> perms.append
      [] action = "ManagePermissions" -> perms.manage_permissions

PubPermissionSet_is_allowed(perms, action) ==
    CASE action = "Read" -> Some(TRUE)
      [] action = "Append" -> perms.append
      [] action = "ManagePermissions" -> perms.manage_permissions

UnpubPermissions_is_action_allowed(P, requester, action) ==
    IF requester \in DOMAIN P.permissions
    THEN IF UnpubPermissionSet_is_allowed(P.permissions[requester], action)
         THEN Ok
         ELSE AccessDenied
    ELSE InvalidPermissions

is_action_allowed_by_user(P, user, action) ==
    IF user \in DOMAIN P.permissions
    THEN PubPermissionSet_is_allowed(P.permissions[user], action)
    ELSE None

\* is_action_allowed asking the wildcard before the requester's own entry.
PubPermissions_is_action_allowed_anyone_first(P, requester, action) ==
    LET by_anyone == is_action_allowed_by_user(P, Anyone, action)
        found == IF by_anyone # None
                 THEN by_anyone
                 ELSE is_action_allowed_by_user(P, Key(requester), action)
    IN  CASE found = Some(TRUE) -> Ok
          [] found = Some(FALSE) -> AccessDenied
          [] found = None -> InvalidPermissions

PubPermissions_is_action_allowed(P, requester, action) ==
    LET by_key == is_action_allowed_by_user(P, Key(requester), action)
        found == IF by_key # None
                 THEN by_key
                 ELSE is_action_allowed_by_user(P, Anyone, action)
    IN  CASE found = Some(TRUE) -> Ok
          [] found = Some(FALSE) -> AccessDenied
          [] found = None -> InvalidPermissions

\* Perm::is_action_allowed, by the permission flavour of the aggregate.
is_action_allowed(P, requester, action) ==
    IF is_pub(address.kind)
    THEN PubPermissions_is_action_allowed(P, requester, action)
    ELSE UnpubPermissions_is_action_allowed(P, requester, action)

\* check_permission going on to the snapshot when there is no owner.
\* check_permission letting every owner of the history pass.
check_permission_any_owner(requester, action) ==
    LET o == owner(FromEnd(1))
        p == permissions_at(FromEnd(1))
    IN  IF o = None THEN InvalidOwners
        ELSE IF \E i \in DOMAIN owners : owners[i].public_key = requester THEN Ok
        ELSE IF p = None THEN InvalidPermissions
        ELSE is_action_allowed(p[1], requester, action)

check_permission_without_owner(requester, action) ==
    LET o == owner(FromEnd(1))
        p == permissions_at(FromEnd(1))
    IN  IF o # None /\ o[1].public_key = requester THEN Ok
        ELSE IF p = None THEN InvalidPermissions
        ELSE is_action_allowed(p[1], requester, action)

\* check_permission asking the latest snapshot before it looks at the owner.
check_permission_snapshot_first(requester, action) ==
    LET o == owner(FromEnd(1))
        p == permissions_at(FromEnd(1))
    IN  IF o = None THEN InvalidOwners
        ELSE IF p # None THEN is_action_allowed(p[1], requester, action)
        ELSE IF o[1].public_key = requester THEN Ok
        ELSE InvalidPermissions

check_permission(requester, action) ==
    LET o == owner(FromEnd(1))
        p == permissions_at(FromEnd(1))
    IN  IF o = None THEN InvalidOwners
        ELSE IF o[1].public_key = requester THEN Ok
        ELSE IF p = None THEN InvalidPermissions
        ELSE is_action_allowed(p[1], requester, action)

\* check_is_last_owner accepting every owner of the history.
check_is_last_owner_any_owner(requester) ==
    IF owners = <<>> THEN InvalidOwners
    ELSE IF \E i \in DOMAIN owners : owners[i].public_key = requester THEN Ok
    ELSE AccessDenied

check_is_last_owner(requester) ==
    LET o == owner(FromEnd(1))
    IN  IF o = None THEN InvalidOwners
        ELSE IF o[1].public_key = requester THEN Ok
        ELSE AccessDenied

(***************************************************************************)
(* The variant dispatcher, enum Data: the variant is the kind of the       *)
(* address the constructor gave the aggregate.                             *)
(***************************************************************************)
\* Data::check_permission forwarding every call.
\* Data::check_permission answering Read itself for every flavour.
Data_check_permission_read_any_flavour(action, requester) ==
    IF action = "Read" THEN Ok
    ELSE check_permission(requester, action)

Data_check_permission_forward_only(action, requester) ==
    check_permission(requester, action)

Data_check_permission(action, requester) ==
    IF is_pub(address.kind) /\ action = "Read" THEN Ok
    ELSE check_permission(requester, action)

pub_permissions(index) ==
    IF is_pub(address.kind)
    THEN LET perms == permissions_at(index)
         IN  IF perms = None THEN NoSuchEntry ELSE OkOf(perms[1])
    ELSE NoSuchData

\* Data::unpub_permissions forwarding whatever the flavour is.
unpub_permissions_any_flavour(index) ==
    LET perms == permissions_at(index)
    IN  IF perms = None THEN NoSuchEntry ELSE OkOf(perms[1])

unpub_permissions(index) ==
    IF ~is_pub(address.kind)
    THEN LET perms == permissions_at(index)
         IN  IF perms = None THEN NoSuchEntry ELSE OkOf(perms[1])
    ELSE NoSuchData

pub_user_permissions(user, index) ==
    LET perms == pub_permissions(index)
    IN  IF perms.tag # "Ok" THEN perms
        ELSE IF user \in DOMAIN perms.value.permissions
        THEN OkOf(perms.value.permissions[user])
        ELSE NoSuchEntry

unpub_user_permissions(user, index) ==
    LET perms == unpub_permissions(index)
    IN  IF perms.tag # "Ok" THEN perms
        ELSE IF user \in DOMAIN perms.value.permissions
        THEN OkOf(perms.value.permissions[user])
        ELSE NoSuchEntry

(***************************************************************************)
(* Duplicate detection.                                                    *)
(***************************************************************************)
\* check_dup without the comparison against the stored keys.
check_dup_batch_only(d, entries) ==
    LET new == {entries[i].key : i \in DOMAIN entries}
    IN  IF Cardinality(new) < Len(entries) THEN DuplicateEntryKeys ELSE Ok

\* check_dup comparing against the stored keys before looking inside the batch.
check_dup_existing_first(d, entries) ==
    LET new == {entries[i].key : i \in DOMAIN entries}
        existing == {d[i].key : i \in DOMAIN d}
    IN  IF existing \cap new # {}
        THEN KeysExist(SelectSeq(entries, LAMBDA entry : entry.key \in existing))
        ELSE IF Cardinality(new) < Len(entries) THEN DuplicateEntryKeys
        ELSE Ok

\* check_dup reporting the whole batch instead of the conflicting entries.
check_dup_whole_batch(d, entries) ==
    LET new == {entries[i].key : i \in DOMAIN entries}
        existing == {d[i].key : i \in DOMAIN d}
    IN  IF Cardinality(new) < Len(entries) THEN DuplicateEntryKeys
        ELSE IF existing \cap new # {} THEN KeysExist(entries)
        ELSE Ok

\* On KeysExist the source drains the batch it was given: that is the caller's
\* vector, moved into append, and not part of the aggregate.
\* check_dup refusing a batch without entries.
check_dup_no_empty(d, entries) ==
    LET new == {entries[i].key : i \in DOMAIN entries}
        existing == {d[i].key : i \in DOMAIN d}
    IN  IF Cardinality(new) < Len(entries) \/ entries = <<>> THEN DuplicateEntryKeys
        ELSE IF existing \cap new # {}
        THEN KeysExist(SelectSeq(entries, LAMBDA entry : entry.key \in existing))
        ELSE Ok

check_dup(d, entries) ==
    LET new == {entries[i].key : i \in DOMAIN entries}
        existing == {d[i].key : i \in DOMAIN d}
    IN  IF Cardinality(new) < Len(entries) THEN DuplicateEntryKeys
        ELSE IF existing \cap new # {}
        THEN KeysExist(SelectSeq(entries, LAMBDA entry : entry.key \in existing))
        ELSE Ok

(***************************************************************************)
(* The mutating operations: each yields the call's result and the          *)
(* sequence it writes as the call leaves it.                               *)
(***************************************************************************)
\* append putting the batch in front of the stored entries.
\* append keeping the batch in place of the stored entries.
append_unseq_replacing(entries) ==
    LET r == check_dup(data, entries)
    IN  IF r # Ok THEN [res |-> r, data |-> data]
        ELSE [res |-> Ok, data |-> entries]

append_unseq_in_front(entries) ==
    LET r == check_dup(data, entries)
    IN  IF r # Ok THEN [res |-> r, data |-> data]
        ELSE [res |-> Ok, data |-> entries \o data]

\* append keeping the entries of a refused batch whose keys are not stored yet.
append_unseq_partial(entries) ==
    LET r == check_dup(data, entries)
        existing == {data[i].key : i \in DOMAIN data}
    IN  IF r = DuplicateEntryKeys THEN [res |-> r, data |-> data]
        ELSE IF r # Ok
        THEN [res |-> r,
              data |-> data \o SelectSeq(entries, LAMBDA entry : entry.key \notin existing)]
        ELSE [res |-> Ok, data |-> data \o entries]

append_unseq(entries) ==
    LET r == check_dup(data, entries)
    IN  IF r # Ok THEN [res |-> r, data |-> data]
        ELSE [res |-> Ok, data |-> data \o entries]

\* append for Seq extending the entries before it compares last_entries_index.
append_seq_extend_first(entries, last_entries_index) ==
    LET r == check_dup(data, entries)
    IN  IF r # Ok THEN [res |-> r, data |-> data]
        ELSE IF last_entries_index # Len(data)
        THEN [res |-> InvalidSuccessor(Len(data)), data |-> data \o entries]
        ELSE [res |-> Ok, data |-> data \o entries]

\* append for Seq without the comparison of last_entries_index.
append_seq_uncounted(entries, last_entries_index) ==
    LET r == check_dup(data, entries)
    IN  IF r # Ok THEN [res |-> r, data |-> data]
        ELSE [res |-> Ok, data |-> data \o entries]

\* append for Seq reporting the count the caller sent instead of the current one.
append_seq_echo(entries, last_entries_index) ==
    LET r == check_dup(data, entries)
    IN  IF r # Ok THEN [res |-> r, data |-> data]
        ELSE IF last_entries_index # Len(data)
        THEN [res |-> InvalidSuccessor(last_entries_index), data |-> data]
        ELSE [res |-> Ok, data |-> data \o entries]

append_seq(entries, last_entries_index) ==
    LET r == check_dup(data, entries)
    IN  IF r # Ok THEN [res |-> r, data |-> data]
        ELSE IF last_entries_index # Len(data)
        THEN [res |-> InvalidSuccessor(Len(data)), data |-> data]
        ELSE [res |-> Ok, data |-> data \o entries]

\* append_permissions without the comparison of the owners anchor.
\* append_permissions comparing the expected position before the two anchors.
\* append_permissions without the comparison of the entries anchor.
append_permissions_no_entries_check(P, permissions_idx) ==
    IF P.owners_index # owners_index
    THEN [res |-> InvalidOwnersSuccessor(owners_index), permissions |-> permissions]
    ELSE IF permissions_index # permissions_idx
    THEN [res |-> InvalidSuccessor(permissions_index), permissions |-> permissions]
    ELSE [res |-> Ok, permissions |-> Append(permissions, P)]

append_permissions_position_first(P, permissions_idx) ==
    IF permissions_index # permissions_idx
    THEN [res |-> InvalidSuccessor(permissions_index), permissions |-> permissions]
    ELSE IF P.entries_index # entries_index
    THEN [res |-> InvalidSuccessor(entries_index), permissions |-> permissions]
    ELSE IF P.owners_index # owners_index
    THEN [res |-> InvalidOwnersSuccessor(owners_index), permissions |-> permissions]
    ELSE [res |-> Ok, permissions |-> Append(permissions, P)]

append_permissions_no_owners_check(P, permissions_idx) ==
    IF P.entries_index # entries_index
    THEN [res |-> InvalidSuccessor(entries_index), permissions |-> permissions]
    ELSE IF permissions_index # permissions_idx
    THEN [res |-> InvalidSuccessor(permissions_index), permissions |-> permissions]
    ELSE [res |-> Ok, permissions |-> Append(permissions, P)]

append_permissions(P, permissions_idx) ==
    IF P.entries_index # entries_index
    THEN [res |-> InvalidSuccessor(entries_index), permissions |-> permissions]
    ELSE IF P.owners_index # owners_index
    THEN [res |-> InvalidOwnersSuccessor(owners_index), permissions |-> permissions]
    ELSE IF permissions_index # permissions_idx
    THEN [res |-> InvalidSuccessor(permissions_index), permissions |-> permissions]
    ELSE [res |-> Ok, permissions |-> Append(permissions, P)]

\* append_owner without the comparison of the permissions anchor.
\* append_owner reporting the position after the current one.
append_owner_next_position(o, index) ==
    IF o.entries_index # entries_index
    THEN [res |-> InvalidSuccessor(entries_index), owners |-> owners]
    ELSE IF o.permissions_index # permissions_index
    THEN [res |-> InvalidPermissionsSuccessor(permissions_index), owners |-> owners]
    ELSE IF owners_index # index
    THEN [res |-> InvalidSuccessor(owners_index + 1), owners |-> owners]
    ELSE [res |-> Ok, owners |-> Append(owners, o)]

\* append_owner without the comparison of the expected position.
append_owner_no_position_check(o, index) ==
    IF o.entries_index # entries_index
    THEN [res |-> InvalidSuccessor(entries_index), owners |-> owners]
    ELSE IF o.permissions_index # permissions_index
    THEN [res |-> InvalidPermissionsSuccessor(permissions_index), owners |-> owners]
    ELSE [res |-> Ok, owners |-> Append(owners, o)]

\* append_owner taking a record anchored at an earlier permission count.
append_owner_stale_permissions(o, index) ==
    IF o.entries_index # entries_index
    THEN [res |-> InvalidSuccessor(entries_index), owners |-> owners]
    ELSE IF o.permissions_index > permissions_index
    THEN [res |-> InvalidPermissionsSuccessor(permissions_index), owners |-> owners]
    ELSE IF owners_index # index
    THEN [res |-> InvalidSuccessor(owners_index), owners |-> owners]
    ELSE [res |-> Ok, owners |-> Append(owners, o)]

append_owner_no_permissions_check(o, index) ==
    IF o.entries_index # entries_index
    THEN [res |-> InvalidSuccessor(entries_index), owners |-> owners]
    ELSE IF owners_index # index
    THEN [res |-> InvalidSuccessor(owners_index), owners |-> owners]
    ELSE [res |-> Ok, owners |-> Append(owners, o)]

\* append_owner keeping the new owner in place of the history.
append_owner_replacing(o, index) ==
    IF o.entries_index # entries_index
    THEN [res |-> InvalidSuccessor(entries_index), owners |-> owners]
    ELSE IF o.permissions_index # permissions_index
    THEN [res |-> InvalidPermissionsSuccessor(permissions_index), owners |-> owners]
    ELSE IF owners_index # index
    THEN [res |-> InvalidSuccessor(owners_index), owners |-> owners]
    ELSE [res |-> Ok, owners |-> <<o>>]

append_owner(o, index) ==
    IF o.entries_index # entries_index
    THEN [res |-> InvalidSuccessor(entries_index), owners |-> owners]
    ELSE IF o.permissions_index # permissions_index
    THEN [res |-> InvalidPermissionsSuccessor(permissions_index), owners |-> owners]
    ELSE IF owners_index # index
    THEN [res |-> InvalidSuccessor(owners_index), owners |-> owners]
    ELSE [res |-> Ok, owners |-> Append(owners, o)]

(***************************************************************************)
(* Inputs.                                                                 *)
(***************************************************************************)
RECURSIVE SeqsUpTo(_, _)
SeqsUpTo(S, n) ==
    IF n = 0 THEN {<<>>}
    ELSE LET shorter == SeqsUpTo(S, n - 1)
         IN  shorter \cup {Append(s, x) : s \in {t \in shorter : Len(t) = n - 1}, x \in S}

Batches == SeqsUpTo(Entry, MaxBatch)

\* The batches over two keys whose entries all carry the same value.
KeyBatches == SeqsUpTo([key : {1, 2}, value : {1}], MaxBatch)

\* Permission maps a caller submits: BTreeMap<PublicKey, UnpubPermissionSet>.
UnpubMaps ==
    { (1 :> [read |-> TRUE, append |-> TRUE, manage_permissions |-> FALSE]),
      (1 :> [read |-> FALSE, append |-> FALSE, manage_permissions |-> FALSE])
        @@ (2 :> [read |-> FALSE, append |-> TRUE, manage_permissions |-> TRUE]) }

\* Permission maps a caller submits: BTreeMap<User, PubPermissionSet>.
PubMaps ==
    { (Anyone :> [append |-> Some(TRUE), manage_permissions |-> Some(FALSE)])
        @@ (Key(1) :> [append |-> None, manage_permissions |-> Some(TRUE)]),
      (Anyone :> [append |-> Some(TRUE), manage_permissions |-> Some(TRUE)])
        @@ (Key(1) :> [append |-> Some(FALSE), manage_permissions |-> Some(FALSE)])
        @@ (Key(2) :> [append |-> None, manage_permissions |-> None]) }

PermissionMaps == IF is_pub(address.kind) THEN PubMaps ELSE UnpubMaps

\* enum User
Users == {Anyone} \cup {Key(k) : k \in PublicKeys}

\* enum Index, as a caller passes it.
IndexInputs == {FromStart(i) : i \in Indexes} \cup {FromEnd(i) : i \in Indexes}

\* Every BTreeMap<PublicKey, UnpubPermissionSet> over the public keys.
AllUnpubMaps == UNION {[D -> UnpubPermissionSet] : D \in SUBSET PublicKeys}

\* Every BTreeMap<User, PubPermissionSet> over the users.
AllPubMaps == UNION {[D -> PubPermissionSet] : D \in SUBSET Users}

AllPermissionMaps(kind) == IF is_pub(kind) THEN AllPubMaps ELSE AllUnpubMaps

\* struct UnpubPermissions / struct PubPermissions
Permissions ==
    [permissions : PermissionMaps, entries_index : Indexes, owners_index : Indexes]

\* struct Owner
Owner ==
    [public_key : PublicKeys, entries_index : Indexes, permissions_index : Indexes]

\* The aggregate as one value.
Aggregate ==
    [address |-> address, data |-> data, permissions |-> permissions, owners |-> owners]

\* The counts a proposal is compared with.
Counts == <<entries_index, owners_index, permissions_index>>

\* No caller has prepared a proposal yet.
NothingPrepared == [counts |-> Counts, owners |-> {}, permissions |-> {}]

\* The owner and permission proposals (record and expected position) that the
\* aggregate accepts as it is, and its counts.
Acceptable ==
    [counts |-> Counts,
     owners |-> {x \in Owner \X Indexes : append_owner(x[1], x[2]).res = Ok},
     permissions |->
         {x \in Permissions \X Indexes : append_permissions(x[1], x[2]).res = Ok}]

(***************************************************************************)
(* The shell: the aggregate without its entries.                           *)
(***************************************************************************)
\* shell keeping only the records made before the target count was reached.
shell_strict(index) ==
    LET at == to_absolute_index(index, entries_index)
    IN  IF at = None THEN NoSuchEntry
        ELSE OkOf([address |-> address,
                   data |-> <<>>,
                   permissions |->
                       SelectSeq(permissions, LAMBDA perm : perm.entries_index < at[1]),
                   owners |->
                       SelectSeq(owners, LAMBDA o : o.entries_index < at[1])])

shell(index) ==
    LET at == to_absolute_index(index, entries_index)
    IN  IF at = None THEN NoSuchEntry
        ELSE OkOf([address |-> address,
                   data |-> <<>>,
                   permissions |->
                       SelectSeq(permissions, LAMBDA perm : perm.entries_index <= at[1]),
                   owners |->
                       SelectSeq(owners, LAMBDA o : o.entries_index <= at[1])])

(***************************************************************************)
(* The state machine.                                                      *)
(***************************************************************************)
\* AppendOnlyData::new, one constructor per flavour.
new(kind, name, tag) ==
    /\ address = [kind |-> kind, name |-> name, tag |-> tag]
    /\ data = <<>>
    /\ permissions = <<>>
    /\ owners = <<>>

\* No call is in progress: the caller holds the aggregate between two calls.
NoCall == [op |-> "none"]

Idle == call = NoCall

Init ==
    /\ \E kind \in Kind : new(kind, 1, 10000)
    /\ call = NoCall
    /\ result = Ok
    /\ pre = Aggregate
    /\ prepared = NothingPrepared

AppendUnseq(batches) ==
    /\ Idle
    /\ ~is_seq(address.kind)
    /\ \E entries \in batches :
          LET r == append_unseq(entries)
          IN  /\ data' = r.data
              /\ result' = r.res
              /\ call' = [op |-> "append", entries |-> entries]
    /\ pre' = Aggregate
    /\ UNCHANGED <<address, permissions, owners, prepared>>

AppendSeq(batches) ==
    /\ Idle
    /\ is_seq(address.kind)
    /\ \E entries \in batches, last_entries_index \in Indexes :
          LET r == append_seq(entries, last_entries_index)
          IN  /\ data' = r.data
              /\ result' = r.res
              /\ call' = [op |-> "append", entries |-> entries,
                          last_entries_index |-> last_entries_index]
    /\ pre' = Aggregate
    /\ UNCHANGED <<address, permissions, owners, prepared>>

AppendPermissions(proposals, cap) ==
    /\ Idle
    /\ \E P \in proposals, permissions_idx \in Indexes :
          LET r == append_permissions(P, permissions_idx)
          IN  /\ Len(r.permissions) + Len(owners) <= cap
              /\ permissions' = r.permissions
              /\ result' = r.res
              /\ call' = [op |-> "append_permissions", permissions |-> P,
                          permissions_idx |-> permissions_idx]
    /\ pre' = Aggregate
    /\ UNCHANGED <<address, data, owners, prepared>>

AppendOwner(proposals, cap) ==
    /\ Idle
    /\ \E o \in proposals, index \in Indexes :
          LET r == append_owner(o, index)
          IN  /\ Len(r.owners) + Len(permissions) <= cap
              /\ owners' = r.owners
              /\ result' = r.res
              /\ call' = [op |-> "append_owner", owner |-> o, index |-> index]
    /\ pre' = Aggregate
    /\ UNCHANGED <<address, data, permissions, prepared>>

CheckPermission ==
    /\ Idle
    /\ \E requester \in PublicKeys, action \in Action :
          /\ result' = check_permission(requester, action)
          /\ call' = [op |-> "check_permission", requester |-> requester,
                      action |-> action]
    /\ pre' = Aggregate
    /\ UNCHANGED <<address, data, permissions, owners, prepared>>

\* A call that reads the aggregate and returns r.
Query(c, r) ==
    /\ Idle
    /\ call' = c
    /\ result' = r
    /\ pre' = Aggregate
    /\ UNCHANGED <<address, data, permissions, owners, prepared>>

CheckIsLastOwner ==
    \E requester \in PublicKeys :
        Query([op |-> "check_is_last_owner", requester |-> requester],
              check_is_last_owner(requester))

Shell ==
    \E index \in IndexInputs :
        Query([op |-> "shell", index |-> index], shell(index))

DataCheckPermission ==
    \E requester \in PublicKeys, action \in Action :
        Query([op |-> "Data::check_permission", requester |-> requester,
               action |-> action],
              Data_check_permission(action, requester))

PubPermissionsAt ==
    \E index \in IndexInputs :
        Query([op |-> "pub_permissions", index |-> index], pub_permissions(index))

UnpubPermissionsAt ==
    \E index \in IndexInputs :
        Query([op |-> "unpub_permissions", index |-> index], unpub_permissions(index))

PubUserPermissions ==
    \E user \in Users, index \in IndexInputs :
        Query([op |-> "pub_user_permissions", user |-> user, index |-> index],
              pub_user_permissions(user, index))

UnpubUserPermissions ==
    \E user \in PublicKeys, index \in IndexInputs :
        Query([op |-> "unpub_user_permissions", user |-> user, index |-> index],
              unpub_user_permissions(user, index))

InRange ==
    \E start \in IndexInputs, end \in IndexInputs :
        Query([op |-> "in_range", start |-> start, end |-> end],
              in_range(start, end))

OwnersRange ==
    \E start \in IndexInputs, end \in IndexInputs :
        Query([op |-> "owners_range", start |-> start, end |-> end],
              owners_range(start, end))

PermissionsRange ==
    \E start \in IndexInputs, end \in IndexInputs :
        Query([op |-> "permissions_range", start |-> start, end |-> end],
              permissions_range(start, end))

\* An Option<usize>, as a record.
OptionOf(o) == IF o = None THEN [tag |-> "None"] ELSE [tag |-> "Some", value |-> o[1]]

\* to_absolute_index on an index and the length of some sequence.
ToAbsoluteIndex ==
    \E index \in IndexInputs, count \in 0..MaxCount :
        Query([op |-> "to_absolute_index", index |-> index, count |-> count],
              OptionOf(to_absolute_index(index, count)))

\* The caller has looked at the result and holds the aggregate again.
Get ==
    \E key \in EntryKeys :
        Query([op |-> "get", key |-> key], OptionOf(get(key)))

Return ==
    /\ ~Idle
    /\ call' = NoCall
    /\ result' = Ok
    /\ pre' = Aggregate
    /\ UNCHANGED <<address, data, permissions, owners, prepared>>

\* Every mutating operation, on an aggregate of any flavour, with the queries
\* on its histories.
Next ==
    \/ AppendUnseq(KeyBatches)
    \/ AppendSeq(KeyBatches)
    \/ AppendPermissions(Permissions, MaxHistory)
    \/ AppendOwner(Owner, MaxHistory)
    \/ CheckPermission
    \/ CheckIsLastOwner
    \/ Shell
    \/ Return

Spec == Init /\ [][Next]_vars

\* The entry store alone, with batches of every key and value.
NextEntries ==
    \/ AppendUnseq(Batches)
    \/ AppendSeq(Batches)
    \/ Get
    \/ Return

SpecEntries == Init /\ [][NextEntries]_vars

\* The snapshots and the owner records anchored at the current counts, the ones
\* append_permissions and append_owner can accept.
AnchoredPermissions ==
    {P \in Permissions : P.entries_index = entries_index /\ P.owners_index = owners_index}

AnchoredOwner ==
    {o \in Owner : o.entries_index = entries_index
                      /\ o.permissions_index = permissions_index}

\* One counted and one uncounted aggregate: the range queries are the same code
\* for every flavour.
InitRange ==
    /\ \E kind \in {"PubSeq", "UnpubUnseq"} : new(kind, 1, 10000)
    /\ call = NoCall
    /\ result = Ok
    /\ pre = Aggregate
    /\ prepared = NothingPrepared

\* Index resolution and the range queries, on the aggregates the mutating
\* operations build from well-anchored proposals.
NextRange ==
    \/ AppendUnseq(KeyBatches)
    \/ AppendSeq(KeyBatches)
    \/ AppendPermissions(AnchoredPermissions, MaxHistory)
    \/ AppendOwner(AnchoredOwner, MaxHistory)
    \/ InRange
    \/ OwnersRange
    \/ PermissionsRange
    \/ ToAbsoluteIndex
    \/ Return

SpecRange == InitRange /\ [][NextRange]_vars

\* The access evaluator on aggregates of at most one owner record and one
\* snapshot, with every permission map. Each of these aggregates is what new()
\* and at most two accepted calls leave: append_owner alone, append_permissions
\* alone, or the two in either order, the second record anchored after the first.
InitAccess ==
    /\ \E kind \in Kind :
          /\ address = [kind |-> kind, name |-> 1, tag |-> 10000]
          /\ \E k \in PublicKeys, m \in AllPermissionMaps(kind),
                first \in {"none", "owner", "permissions"}, both \in BOOLEAN :
                LET second == IF both THEN 1 ELSE 0
                    o == [public_key |-> k, entries_index |-> 0,
                          permissions_index |-> IF first = "owner" THEN 0 ELSE 1]
                    P == [permissions |-> m, entries_index |-> 0,
                          owners_index |-> IF first = "permissions" THEN 0 ELSE 1]
                IN  /\ owners = CASE first = "none" -> <<>>
                                  [] first = "owner" -> <<o>>
                                  [] first = "permissions" -> IF both THEN <<o>> ELSE <<>>
                    /\ permissions = CASE first = "none" -> <<>>
                                       [] first = "permissions" -> <<P>>
                                       [] first = "owner" -> IF both THEN <<P>> ELSE <<>>
    /\ data = <<>>
    /\ call = NoCall
    /\ result = Ok
    /\ pre = Aggregate
    /\ prepared = NothingPrepared

NextAccess ==
    \/ CheckPermission
    \/ DataCheckPermission
    \/ PubPermissionsAt
    \/ UnpubPermissionsAt
    \/ PubUserPermissions
    \/ UnpubUserPermissions
    \/ Return

SpecAccess == InitAccess /\ [][NextAccess]_vars

(***************************************************************************)
(* Properties of the entry store.                                          *)
(***************************************************************************)
KeysOf(s) == {s[i].key : i \in DOMAIN s}

NoDupKeys(s) == \A i, j \in DOMAIN s : i # j => s[i].key # s[j].key

\* The entries of s whose key is in K, in the order of s.
IsSubSeqOn(c, s, K) ==
    /\ Len(c) = Cardinality({i \in DOMAIN s : s[i].key \in K})
    /\ \E f \in [DOMAIN c -> DOMAIN s] :
          /\ \A j \in DOMAIN c : c[j] = s[f[j]] /\ s[f[j]].key \in K
          /\ \A j, k \in DOMAIN c : j < k => f[j] < f[k]

SeqCall == call.op = "append" /\ is_seq(address.kind)

UnseqCall == call.op = "append" /\ ~is_seq(address.kind)

\* C1: on a counted (Seq) aggregate append(batch, expected) is accepted iff
\* expected is the current entry count, no two entries of the batch share a key
\* and no key of the batch is stored; a rejected call leaves the stored entries
\* as they were.
C1_SeqAppendAcceptedIff ==
    SeqCall =>
        /\ (result = Ok) <=>
              /\ call.last_entries_index = Len(pre.data)
              /\ NoDupKeys(call.entries)
              /\ KeysOf(call.entries) \cap KeysOf(pre.data) = {}
        /\ result # Ok => data = pre.data

C1_Witness ==
    /\ SeqCall
    /\ result = InvalidSuccessor(Len(pre.data))
    /\ Len(pre.data) > 0
    /\ call.entries # <<>>
    /\ data = pre.data

\* C2: on an uncounted (Unseq) aggregate append(batch) is accepted iff the batch
\* has no two entries with the same key and none of its keys is stored, whatever
\* the entry count; an accepted batch is added whole, in batch order, after the
\* existing entries, and the count grows by the batch length.
C2_UnseqAppendAcceptedIff ==
    UnseqCall =>
        /\ (result = Ok) <=>
              /\ NoDupKeys(call.entries)
              /\ KeysOf(call.entries) \cap KeysOf(pre.data) = {}
        /\ result = Ok =>
              /\ data = pre.data \o call.entries
              /\ Len(data) = Len(pre.data) + Len(call.entries)

C2_Witness ==
    /\ UnseqCall
    /\ result = Ok
    /\ Len(pre.data) > 0
    /\ Len(call.entries) = 2
    /\ Len(data) = Len(pre.data) + 2

\* C3: in both disciplines no two stored entries have the same key, after any
\* sequence of accepted and rejected appends.
C3_KeysUnique == NoDupKeys(data)

C3_Witness ==
    /\ call.op = "append"
    /\ result.tag = "KeysExist"
    /\ Len(data) >= 2

\* C4: in both disciplines an append whose batch holds two entries with the same
\* key fails with DuplicateEntryKeys and appends nothing, also when no key of the
\* batch is stored and the expected count is right.
C4_DuplicateEntryKeys ==
    (call.op = "append" /\ ~NoDupKeys(call.entries)) =>
        /\ result = DuplicateEntryKeys
        /\ data = pre.data

C4_Witness ==
    /\ SeqCall
    /\ ~NoDupKeys(call.entries)
    /\ KeysOf(call.entries) \cap KeysOf(pre.data) = {}
    /\ call.last_entries_index = Len(pre.data)
    /\ Len(pre.data) > 0
    /\ result = DuplicateEntryKeys

\* C5: a batch without a duplicate key of its own, with at least one key already
\* stored, fails with KeysExist(c), c being exactly the entries of the batch whose
\* key is stored, in batch order and with the batch's values; nothing is appended.
C5_KeysExistCarriesConflicts ==
    (/\ call.op = "append"
     /\ NoDupKeys(call.entries)
     /\ KeysOf(call.entries) \cap KeysOf(pre.data) # {}) =>
        /\ result.tag = "KeysExist"
        /\ IsSubSeqOn(result.dup, call.entries, KeysOf(pre.data))
        /\ data = pre.data

C5_Witness ==
    /\ call.op = "append"
    /\ result.tag = "KeysExist"
    /\ Len(result.dup) = 1
    /\ Len(call.entries) = 2
    /\ \E i \in DOMAIN pre.data :
          /\ pre.data[i].key = result.dup[1].key
          /\ pre.data[i].value # result.dup[1].value

(***************************************************************************)
(* Properties of the two histories and of the operations together.         *)
(***************************************************************************)
IsPrefix(s, t) == Len(s) <= Len(t) /\ SubSeq(t, 1, Len(s)) = s

AppendOps == {"append", "append_owner", "append_permissions"}

\* C6: append_permissions(snapshot, expected_position) is accepted iff the
\* snapshot's entries_index is the entry count, its owners_index is the length of
\* the owner history and expected_position is the length of the permission
\* history; accepted, the permission history grows by the snapshot, at its end;
\* rejected, the permission history is as it was.
C6_AppendPermissionsAcceptedIff ==
    call.op = "append_permissions" =>
        /\ (result = Ok) <=>
              /\ call.permissions.entries_index = Len(pre.data)
              /\ call.permissions.owners_index = Len(pre.owners)
              /\ call.permissions_idx = Len(pre.permissions)
        /\ result = Ok => permissions = Append(pre.permissions, call.permissions)
        /\ result # Ok => permissions = pre.permissions

C6_Witness ==
    /\ call.op = "append_permissions"
    /\ result = Ok
    /\ call.permissions.entries_index > 0
    /\ call.permissions.owners_index > 0
    /\ permissions[Len(permissions)] = call.permissions

\* C7: append_owner(record, expected_position) is accepted iff the record's
\* entries_index is the entry count, its permissions_index is the length of the
\* permission history and expected_position is the length of the owner history;
\* accepted, the owner history grows by the record, at its end; rejected, the
\* owner history is as it was.
C7_AppendOwnerAcceptedIff ==
    call.op = "append_owner" =>
        /\ (result = Ok) <=>
              /\ call.owner.entries_index = Len(pre.data)
              /\ call.owner.permissions_index = Len(pre.permissions)
              /\ call.index = Len(pre.owners)
        /\ result = Ok => owners = Append(pre.owners, call.owner)
        /\ result # Ok => owners = pre.owners

C7_Witness ==
    /\ call.op = "append_owner"
    /\ result = Ok
    /\ call.owner.entries_index > 0
    /\ call.owner.permissions_index > 0
    /\ owners[Len(owners)] = call.owner

\* C8: an append of entries (either discipline), an append_owner or an
\* append_permissions that returns an error leaves the whole aggregate (address,
\* entries, owner history, permission history) as it was before the call.
C8_FailureAtomicity ==
    (call.op \in AppendOps /\ result # Ok) => Aggregate = pre

C8_Witness ==
    /\ SeqCall
    /\ result.tag = "InvalidSuccessor"
    /\ call.entries # <<>>
    /\ Len(owners) > 0
    /\ Len(permissions) > 0
    /\ Aggregate = pre

\* The sequences of the aggregate that a call changed.
Changed ==
    {f \in {"data", "owners", "permissions"} : Aggregate[f] # pre[f]}

\* The sequence an operation writes.
Target(op) ==
    CASE op = "append" -> "data"
      [] op = "append_owner" -> "owners"
      [] op = "append_permissions" -> "permissions"

\* C9 as stated: every accepted append changes exactly one of the three
\* sequences, only at its end, the other two and the address staying as they
\* were.
C9_ExactlyOneChanged ==
    (call.op \in AppendOps /\ result = Ok) =>
        /\ Cardinality(Changed) = 1
        /\ IsPrefix(pre.data, data)
        /\ IsPrefix(pre.owners, owners)
        /\ IsPrefix(pre.permissions, permissions)
        /\ address = pre.address

\* C9, amended: every accepted append changes no sequence but the one it
\* writes, and that one only by adding at its end; it changes exactly that one
\* unless it is an append of an empty batch, which changes none. In every step
\* the address stays and each sequence is a prefix of what it becomes.
C9_AppendOnly ==
    [][/\ address' = address
       /\ IsPrefix(data, data')
       /\ IsPrefix(owners, owners')
       /\ IsPrefix(permissions, permissions')
       /\ (call'.op \in AppendOps /\ result' = Ok) =>
             /\ Changed' \subseteq {Target(call'.op)}
             /\ (Changed' = {}) <=> (call'.op = "append" /\ call'.entries = <<>>)
      ]_vars

C9_Witness ==
    /\ call.op = "append_permissions"
    /\ result = Ok
    /\ Changed = {"permissions"}
    /\ Len(data) > 0
    /\ Len(owners) > 0

\* C10: with a non-empty owner history, check_permission(principal, action) is
\* Ok for every action and both permission flavours when the principal is the
\* key of the last owner record, whether the permission history is empty or its
\* latest snapshot denies the principal the action.
C10_OwnerBypass ==
    /\ \A requester \in PublicKeys, action \in Action :
          (owners # <<>> /\ owners[Len(owners)].public_key = requester) =>
              check_permission(requester, action) = Ok
    /\ (/\ call.op = "check_permission"
        /\ owners # <<>>
        /\ owners[Len(owners)].public_key = call.requester) => result = Ok

C10_Witness ==
    /\ call.op = "check_permission"
    /\ result = Ok
    /\ owners # <<>>
    /\ owners[Len(owners)].public_key = call.requester
    /\ permissions # <<>>
    /\ is_action_allowed(permissions[Len(permissions)], call.requester, call.action)
          = AccessDenied


(***************************************************************************)
(* Properties of the access evaluator.                                     *)
(***************************************************************************)
LastOwnerIs(requester) == owners # <<>> /\ owners[Len(owners)].public_key = requester

LatestMap == permissions[Len(permissions)].permissions

\* C11: through the dispatcher, Read on a public aggregate is Ok for every
\* principal in every state: with no owner record, with no snapshot, and with a
\* latest snapshot that names neither the principal nor the wildcard.
C11_PubReadThroughDispatcher ==
    is_pub(address.kind) =>
        /\ \A requester \in PublicKeys : Data_check_permission("Read", requester) = Ok
        /\ call.op = "Data::check_permission" /\ call.action = "Read" => result = Ok

C11_Witness ==
    /\ call.op = "Data::check_permission"
    /\ call.action = "Read"
    /\ is_pub(address.kind)
    /\ owners = <<>>
    /\ permissions # <<>>
    /\ Key(call.requester) \notin DOMAIN LatestMap
    /\ Anyone \notin DOMAIN LatestMap
    /\ result = Ok

\* C12: on a concrete public aggregate with at least one owner record and at
\* least one snapshot, check_permission allows Read to every principal, whatever
\* the latest snapshot's map holds.
C12_PubReadOnConcrete ==
    (/\ call.op = "check_permission"
     /\ call.action = "Read"
     /\ is_pub(address.kind)
     /\ owners # <<>>
     /\ permissions # <<>>) => result = Ok

\* The first explicit value of the action in the order (m[principal], m[Anyone]).
Explicit(m, user, action) ==
    /\ user \in DOMAIN m
    /\ (IF action = "Append" THEN m[user].append ELSE m[user].manage_permissions) # None

ValueOf(m, user, action) ==
    (IF action = "Append" THEN m[user].append ELSE m[user].manage_permissions)[1]

FirstExplicit(m, requester, action) ==
    IF Explicit(m, Key(requester), action)
    THEN IF ValueOf(m, Key(requester), action) THEN Ok ELSE AccessDenied
    ELSE IF Explicit(m, Anyone, action)
    THEN IF ValueOf(m, Anyone, action) THEN Ok ELSE AccessDenied
    ELSE InvalidPermissions

PubDecisionCall ==
    /\ call.op = "check_permission"
    /\ is_pub(address.kind)
    /\ call.action \in {"Append", "ManagePermissions"}
    /\ owners # <<>>
    /\ ~LastOwnerIs(call.requester)
    /\ permissions # <<>>

\* C13: public flavour, Append or ManagePermissions, principal not the last
\* owner: the decision is the first explicit value in the order (m[principal],
\* m[Anyone]); true gives Ok, false gives AccessDenied, none gives
\* InvalidPermissions. An explicit false of the principal wins over a wildcard
\* true, and an unset value of the principal gives the wildcard's outcome.
C13_PubFirstExplicitValue ==
    PubDecisionCall =>
        /\ result = FirstExplicit(LatestMap, call.requester, call.action)
        /\ (/\ Explicit(LatestMap, Key(call.requester), call.action)
            /\ ~ValueOf(LatestMap, Key(call.requester), call.action))
              => result = AccessDenied
        /\ (/\ Key(call.requester) \in DOMAIN LatestMap
            /\ ~Explicit(LatestMap, Key(call.requester), call.action))
              => result = CASE ~Explicit(LatestMap, Anyone, call.action)
                                  -> InvalidPermissions
                            [] OTHER
                                  -> IF ValueOf(LatestMap, Anyone, call.action)
                                     THEN Ok ELSE AccessDenied

C13_Witness ==
    /\ PubDecisionCall
    /\ Explicit(LatestMap, Key(call.requester), call.action)
    /\ ~ValueOf(LatestMap, Key(call.requester), call.action)
    /\ Explicit(LatestMap, Anyone, call.action)
    /\ ValueOf(LatestMap, Anyone, call.action)
    /\ result = AccessDenied

\* The bit of a private permission set that belongs to the action.
BitOf(perms, action) ==
    CASE action = "Read" -> perms.read
      [] action = "Append" -> perms.append
      [] action = "ManagePermissions" -> perms.manage_permissions

UnpubDecisionState ==
    /\ ~is_pub(address.kind)
    /\ owners # <<>>
    /\ permissions # <<>>

\* C14: private flavour, principal not the last owner: InvalidPermissions when
\* the latest snapshot has no entry for the principal, Ok when the entry's bit
\* for the action is true, AccessDenied when it is false; the outcome for one
\* action is the same whatever the bits of the other two actions are.
C14_UnpubBits ==
    UnpubDecisionState =>
        /\ \A requester \in PublicKeys, action \in Action :
              ~LastOwnerIs(requester) =>
                  check_permission(requester, action) =
                      IF requester \notin DOMAIN LatestMap THEN InvalidPermissions
                      ELSE IF BitOf(LatestMap[requester], action) THEN Ok
                      ELSE AccessDenied
        /\ (call.op = "check_permission" /\ ~LastOwnerIs(call.requester)) =>
              result = IF call.requester \notin DOMAIN LatestMap THEN InvalidPermissions
                       ELSE IF BitOf(LatestMap[call.requester], call.action) THEN Ok
                       ELSE AccessDenied

C14_Witness ==
    /\ UnpubDecisionState
    /\ call.op = "check_permission"
    /\ call.action = "Append"
    /\ ~LastOwnerIs(call.requester)
    /\ call.requester \in DOMAIN LatestMap
    /\ LatestMap[call.requester] =
          [read |-> FALSE, append |-> TRUE, manage_permissions |-> FALSE]
    /\ result = Ok

\* C15: on a concrete aggregate of either flavour, for every principal and
\* action, check_permission fails with InvalidOwners when the owner history is
\* empty, even when a snapshot grants the action, and with InvalidPermissions
\* when there is an owner, the principal is not the last owner and the
\* permission history is empty.
C15_MissingHistories ==
    /\ \A requester \in PublicKeys, action \in Action :
          /\ owners = <<>> => check_permission(requester, action) = InvalidOwners
          /\ (owners # <<>> /\ ~LastOwnerIs(requester) /\ permissions = <<>>)
                => check_permission(requester, action) = InvalidPermissions
    /\ call.op = "check_permission" =>
          /\ owners = <<>> => result = InvalidOwners
          /\ (owners # <<>> /\ ~LastOwnerIs(call.requester) /\ permissions = <<>>)
                => result = InvalidPermissions

C15_Witness ==
    /\ call.op = "check_permission"
    /\ owners = <<>>
    /\ permissions # <<>>
    /\ is_action_allowed(permissions[Len(permissions)], call.requester, call.action) = Ok
    /\ result = InvalidOwners

(***************************************************************************)
(* Properties of the typed permission queries.                             *)
(***************************************************************************)
\* The 0-based offset an index selects in the permission history, if any.
Selects(index) ==
    IF index.tag = "FromStart"
    THEN IF index.i < Len(permissions) THEN Some(index.i) ELSE None
    ELSE IF 1 <= index.i /\ index.i <= Len(permissions)
         THEN Some(Len(permissions) - index.i)
         ELSE None

TypedQueries ==
    {"pub_permissions", "pub_user_permissions",
     "unpub_permissions", "unpub_user_permissions"}

ForPub(op) == op \in {"pub_permissions", "pub_user_permissions"}

ForUser(op) == op \in {"pub_user_permissions", "unpub_user_permissions"}

\* C20: a typed permission query of the other flavour fails with NoSuchData for
\* every index; on the matching flavour it fails with NoSuchEntry when the index
\* selects no snapshot or, for the user queries, when the selected snapshot has
\* no entry for the user, and otherwise returns the stored snapshot or
\* permission set.
C20_TypedPermissionQueries ==
    call.op \in TypedQueries =>
        IF ForPub(call.op) # is_pub(address.kind) THEN result = NoSuchData
        ELSE LET at == Selects(call.index)
             IN  IF at = None THEN result = NoSuchEntry
                 ELSE LET snapshot == permissions[at[1] + 1]
                      IN  IF ~ForUser(call.op) THEN result = OkOf(snapshot)
                          ELSE IF call.user \notin DOMAIN snapshot.permissions
                          THEN result = NoSuchEntry
                          ELSE result = OkOf(snapshot.permissions[call.user])

C20_Witness ==
    /\ call.op = "unpub_user_permissions"
    /\ is_pub(address.kind)
    /\ permissions # <<>>
    /\ call.index = FromStart(MaxIdx)
    /\ result = NoSuchData

(***************************************************************************)
(* Properties of the owner check and of the shell.                         *)
(***************************************************************************)
\* C16: check_is_last_owner(principal) is Ok iff the owner history is non-empty
\* and its last record's key is the principal; it fails with InvalidOwners when
\* the history is empty and with AccessDenied when the last owner is somebody
\* else, an earlier owner included.
C16_CheckIsLastOwner ==
    call.op = "check_is_last_owner" =>
        /\ result = Ok <=> LastOwnerIs(call.requester)
        /\ owners = <<>> => result = InvalidOwners
        /\ (owners # <<>> /\ ~LastOwnerIs(call.requester)) => result = AccessDenied

C16_Witness ==
    /\ call.op = "check_is_last_owner"
    /\ Len(owners) > 1
    /\ owners[1].public_key = call.requester
    /\ owners[Len(owners)].public_key # call.requester
    /\ result = AccessDenied

\* The longest prefix of a history whose records were made at an entry count
\* of at most t.
LongestPrefix(history, t) ==
    LET fits(n) == \A i \in 1..n : history[i].entries_index <= t
        n == CHOOSE k \in 0..Len(history) :
                 fits(k) /\ \A j \in 0..Len(history) : fits(j) => j <= k
    IN  SubSeq(history, 1, n)

\* C17: when the target resolves to an offset t against the entry count,
\* shell(target) returns an aggregate with the same address, no entries, and as
\* owner and permission histories the longest prefixes of the original ones
\* whose records have entries_index <= t; at the current entry count both
\* histories are complete; the original aggregate is unchanged.
C17_Shell ==
    call.op = "shell" =>
        LET t == to_absolute_index(call.index, Len(pre.data))
        IN  /\ Aggregate = pre
            /\ t # None =>
                  /\ result = OkOf([address |-> pre.address,
                                    data |-> <<>>,
                                    permissions |-> LongestPrefix(pre.permissions, t[1]),
                                    owners |-> LongestPrefix(pre.owners, t[1])])
                  /\ t[1] = Len(pre.data) =>
                        /\ result.value.permissions = pre.permissions
                        /\ result.value.owners = pre.owners

C17_Witness ==
    /\ call.op = "shell"
    /\ result.tag = "Ok"
    /\ data # <<>>
    /\ result.value.data = <<>>
    /\ result.value.owners # <<>>
    /\ Len(result.value.owners) + Len(result.value.permissions)
          < Len(owners) + Len(permissions)

(***************************************************************************)
(* Properties of index resolution and of the range queries.                *)
(***************************************************************************)
\* C18: against a sequence of length count, FromStart(i) resolves iff
\* i <= count and yields i; FromEnd(i) resolves iff i <= count and yields
\* count - i, so FromEnd(0) is count and FromEnd(1) the last offset; nothing
\* else resolves, and a resolved offset is in 0..count.
C18_IndexResolution ==
    call.op = "to_absolute_index" =>
        /\ result.tag = "Some" <=> call.index.i <= call.count
        /\ result.tag = "Some" =>
              /\ result.value = IF call.index.tag = "FromStart"
                                THEN call.index.i
                                ELSE call.count - call.index.i
              /\ result.value \in 0..call.count
        /\ result.tag # "Some" => result = [tag |-> "None"]
        /\ call.index = FromEnd(0) => result = [tag |-> "Some", value |-> call.count]
        /\ (call.index = FromEnd(1) /\ call.count > 0)
              => result = [tag |-> "Some", value |-> call.count - 1]

C18_Witness ==
    /\ call.op = "to_absolute_index"
    /\ call.index.tag = "FromStart"
    /\ call.count > 0
    /\ call.index.i = call.count
    /\ result = [tag |-> "Some", value |-> call.count]

RangeQueries == {"in_range", "owners_range", "permissions_range"}

\* The sequence a range query reads.
Queried(op) ==
    CASE op = "in_range" -> pre.data
      [] op = "owners_range" -> pre.owners
      [] op = "permissions_range" -> pre.permissions

\* C19: a range query returns a result iff both indices resolve against the
\* sequence length and the resolved start is at most the resolved end; the
\* result is the elements at the offsets start..end-1 in order, empty when
\* start = end and the whole sequence for FromStart(0)..FromEnd(0); otherwise
\* it returns nothing, and it never reads outside the sequence.
C19_RangeQueries ==
    call.op \in RangeQueries =>
        LET vec == Queried(call.op)
            s == to_absolute_index(call.start, Len(vec))
            e == to_absolute_index(call.end, Len(vec))
            resolves == s # None /\ e # None /\ s[1] <= e[1]
        IN  /\ result # Panic
            /\ result.tag = "Some" <=> resolves
            /\ ~resolves => result = [tag |-> "None"]
            /\ resolves =>
                  /\ e[1] <= Len(vec)
                  /\ result.value = [k \in 1..(e[1] - s[1]) |-> vec[s[1] + k]]
                  /\ s[1] = e[1] => result.value = <<>>
            /\ (call.start = FromStart(0) /\ call.end = FromEnd(0))
                  => result = [tag |-> "Some", value |-> vec]

C19_Witness ==
    /\ call.op = "in_range"
    /\ Len(data) > 1
    /\ call.start = FromStart(1)
    /\ call.end = FromEnd(0)
    /\ result = [tag |-> "Some", value |-> SubSeq(data, 2, Len(data))]

(***************************************************************************)
(* Properties of the successor errors.                                     *)
(***************************************************************************)
StaleSeqCall == SeqCall /\ call.last_entries_index # Len(pre.data)

\* C21 as stated: a counted append whose expected count is not the current
\* entry count fails with InvalidSuccessor(current entry count), whatever the
\* batch contains, and leaves the store unchanged.
C21_StaleCountAlwaysInvalidSuccessor ==
    StaleSeqCall =>
        /\ result = InvalidSuccessor(Len(pre.data))
        /\ data = pre.data

\* C21: a counted append whose expected count is not the current entry count
\* fails and leaves the store unchanged; the error is
\* InvalidSuccessor(current entry count) when the batch passes duplicate
\* detection, and the error of duplicate detection, which runs first, when it
\* does not.
C21_StaleCountRejected ==
    StaleSeqCall =>
        /\ result # Ok
        /\ data = pre.data
        /\ (NoDupKeys(call.entries) /\ KeysOf(call.entries) \cap KeysOf(pre.data) = {})
              => result = InvalidSuccessor(Len(pre.data))
        /\ ~NoDupKeys(call.entries) => result = DuplicateEntryKeys
        /\ (NoDupKeys(call.entries) /\ KeysOf(call.entries) \cap KeysOf(pre.data) # {})
              => result.tag = "KeysExist"

C21_Witness ==
    /\ StaleSeqCall
    /\ pre.data # <<>>
    /\ call.entries # <<>>
    /\ call.last_entries_index # 0
    /\ result = InvalidSuccessor(Len(data))

\* The three counters a history proposal is compared with, in the order of the
\* claim: 1 the record's entries anchor, 2 its anchor on the other history,
\* 3 the expected position. Sent is the value the call sent, Current the value
\* of the counter when the call was made.
Sent(i) ==
    IF call.op = "append_permissions"
    THEN CASE i = 1 -> call.permissions.entries_index
           [] i = 2 -> call.permissions.owners_index
           [] i = 3 -> call.permissions_idx
    ELSE CASE i = 1 -> call.owner.entries_index
           [] i = 2 -> call.owner.permissions_index
           [] i = 3 -> call.index

Current(i) ==
    CASE i = 1 -> Len(pre.data)
      [] i = 2 -> IF call.op = "append_permissions"
                  THEN Len(pre.owners) ELSE Len(pre.permissions)
      [] i = 3 -> IF call.op = "append_permissions"
                  THEN Len(pre.permissions) ELSE Len(pre.owners)

Mismatched == {i \in 1..3 : Sent(i) # Current(i)}

\* The first comparison that fails, when one does.
FirstMismatch ==
    IF Sent(1) # Current(1) THEN 1 ELSE IF Sent(2) # Current(2) THEN 2 ELSE 3

HistoryCall == call.op \in {"append_owner", "append_permissions"}

\* The variant that names a counter: InvalidSuccessor the entry count,
\* InvalidOwnersSuccessor the owner-history length, InvalidPermissionsSuccessor
\* the permission-history length.
VariantOf(i) ==
    CASE i = 1 -> "InvalidSuccessor"
      [] i = 2 -> IF call.op = "append_permissions"
                  THEN "InvalidOwnersSuccessor" ELSE "InvalidPermissionsSuccessor"
      [] i = 3 -> IF call.op = "append_permissions"
                  THEN "InvalidPermissionsSuccessor" ELSE "InvalidOwnersSuccessor"

\* C22 as stated: a rejected append_owner or append_permissions returns the
\* variant of the counter that mismatched, InvalidSuccessor for the entry
\* count, InvalidOwnersSuccessor for the owner-history length and
\* InvalidPermissionsSuccessor for the permission-history length, so that the
\* error alone tells which counter to correct.
C22_VariantNamesCounter ==
    (HistoryCall /\ result # Ok) => result.tag = VariantOf(FirstMismatch)

\* C24: append_permissions and append_owner compare the entries anchor, then
\* the anchor on the other history, then the expected position; the error is
\* that of the first comparison that fails and carries the current value of
\* that counter, whatever the later counters are; a wrong entries anchor gives
\* InvalidSuccessor(current entry count).
C24_FirstMismatchReported ==
    HistoryCall =>
        /\ result = Ok <=> Mismatched = {}
        /\ Mismatched # {} =>
              /\ result.n = Current(FirstMismatch)
              /\ FirstMismatch = 1 => result = InvalidSuccessor(Len(pre.data))
              /\ FirstMismatch = 2 => result.tag = VariantOf(2)

C24_Witness ==
    /\ call.op = "append_permissions"
    /\ Mismatched = {1, 3}
    /\ Len(pre.data) # Len(pre.permissions)
    /\ result = InvalidSuccessor(Len(pre.data))

(***************************************************************************)
(* The caller's compare-and-retry loop.                                    *)
(***************************************************************************)
SuccessorErrors ==
    {"InvalidSuccessor", "InvalidOwnersSuccessor", "InvalidPermissionsSuccessor"}

\* How many times the caller has corrected the proposal it is submitting, and
\* which of its counters it has corrected.
Corrections == IF "corrections" \in DOMAIN call THEN call.corrections ELSE 0

Fixed == IF "fixed" \in DOMAIN call THEN call.fixed ELSE {}

\* The caller resubmits a rejected append_permissions with the counter whose
\* comparison failed replaced by the value of the error; nothing else has
\* touched the aggregate since the rejection.
RetryAppendPermissions ==
    /\ call.op = "append_permissions"
    /\ result.tag \in SuccessorErrors
    /\ LET i == FirstMismatch
           P == CASE i = 1 -> [call.permissions EXCEPT !.entries_index = result.n]
                  [] i = 2 -> [call.permissions EXCEPT !.owners_index = result.n]
                  [] i = 3 -> call.permissions
           permissions_idx == IF i = 3 THEN result.n ELSE call.permissions_idx
           r == append_permissions(P, permissions_idx)
       IN  /\ permissions' = r.permissions
           /\ result' = r.res
           /\ call' = [op |-> "append_permissions", permissions |-> P,
                       permissions_idx |-> permissions_idx,
                       corrections |-> Corrections + 1, fixed |-> Fixed \cup {i}]
    /\ pre' = Aggregate
    /\ UNCHANGED <<address, data, owners, prepared>>

RetryAppendOwner ==
    /\ call.op = "append_owner"
    /\ result.tag \in SuccessorErrors
    /\ LET i == FirstMismatch
           o == CASE i = 1 -> [call.owner EXCEPT !.entries_index = result.n]
                  [] i = 2 -> [call.owner EXCEPT !.permissions_index = result.n]
                  [] i = 3 -> call.owner
           index == IF i = 3 THEN result.n ELSE call.index
           r == append_owner(o, index)
       IN  /\ owners' = r.owners
           /\ result' = r.res
           /\ call' = [op |-> "append_owner", owner |-> o, index |-> index,
                       corrections |-> Corrections + 1, fixed |-> Fixed \cup {i}]
    /\ pre' = Aggregate
    /\ UNCHANGED <<address, data, permissions, prepared>>

RetryAppendSeq ==
    /\ SeqCall
    /\ result.tag \in SuccessorErrors
    /\ LET r == append_seq(call.entries, result.n)
       IN  /\ data' = r.data
           /\ result' = r.res
           /\ call' = [op |-> "append", entries |-> call.entries,
                       last_entries_index |-> result.n,
                       corrections |-> Corrections + 1, fixed |-> Fixed \cup {1}]
    /\ pre' = Aggregate
    /\ UNCHANGED <<address, permissions, owners, prepared>>

\* One counted aggregate: the comparisons are the same code for every flavour.
InitRetry ==
    /\ new("UnpubSeq", 1, 10000)
    /\ call = NoCall
    /\ result = Ok
    /\ pre = Aggregate
    /\ prepared = NothingPrepared

\* The proposals of one owner and with one permission map, with every anchor:
\* the comparisons look at the anchors and at the expected position only.
RetryPermissions ==
    {P \in Permissions : P.permissions = CHOOSE m \in PermissionMaps : TRUE}

RetryOwner == {o \in Owner : o.public_key = CHOOSE k \in PublicKeys : TRUE}

NextRetry ==
    \/ AppendSeq(KeyBatches)
    \/ AppendPermissions(RetryPermissions, MaxHistory)
    \/ AppendOwner(RetryOwner, MaxHistory)
    \/ RetryAppendPermissions
    \/ RetryAppendOwner
    \/ RetryAppendSeq
    \/ Return

SpecRetry == InitRetry /\ [][NextRetry]_vars

\* C23: a resubmission with the counter whose comparison failed replaced by
\* the value of the error never fails on a corrected counter again; a history
\* proposal is accepted after at most three corrections, and a counted append
\* of a batch that passes duplicate detection after at most one.
C23_RetryConverges ==
    Corrections > 0 =>
        /\ HistoryCall =>
              /\ Mismatched \cap Fixed = {}
              /\ result # Ok => FirstMismatch \notin Fixed /\ Corrections < 3
              /\ Corrections = 3 => result = Ok
        /\ SeqCall =>
              /\ result.tag # "InvalidSuccessor"
              /\ Corrections = 1
              /\ (NoDupKeys(call.entries) /\ KeysOf(call.entries) \cap KeysOf(pre.data) = {})
                    => result = Ok

C23_Witness ==
    /\ call.op = "append_owner"
    /\ Corrections = 3
    /\ Fixed = {1, 2, 3}
    /\ result = Ok
    /\ Len(owners) > 1
    /\ owners[Len(owners)] = call.owner

(***************************************************************************)
(* Proposals prepared against an earlier state.                            *)
(***************************************************************************)
\* A caller looks at the aggregate and prepares the proposals it accepts now.
Prepare ==
    /\ Idle
    /\ prepared # Acceptable
    /\ prepared' = Acceptable
    /\ UNCHANGED <<address, data, permissions, owners, call, result, pre>>

\* The callers submit what they prepared, or a proposal anchored at the
\* current counts.
\* One uncounted aggregate: the comparisons are the same code for every flavour.
InitStale ==
    /\ new("PubUnseq", 1, 10000)
    /\ call = NoCall
    /\ result = Ok
    /\ pre = Aggregate
    /\ prepared = NothingPrepared

NextStale ==
    \/ AppendUnseq(KeyBatches)
    \/ AppendPermissions({x[1] : x \in prepared.permissions} \cup AnchoredPermissions,
                         MaxHistory)
    \/ AppendOwner({x[1] : x \in prepared.owners} \cup AnchoredOwner, MaxHistory)
    \/ Prepare
    \/ Return

SpecStale == InitStale /\ [][NextStale]_vars

PreCounts == <<Len(pre.data), Len(pre.owners), Len(pre.permissions)>>

\* The call submits a proposal as it was prepared.
PreparedCall ==
    \/ call.op = "append_owner" /\ <<call.owner, call.index>> \in prepared.owners
    \/ call.op = "append_permissions"
          /\ <<call.permissions, call.permissions_idx>> \in prepared.permissions

\* C25: an owner or permission proposal that would be accepted in a state is
\* rejected in every state reached from it by accepted appends that changed
\* one of the three counts: no count ever goes back, and with a count changed
\* no prepared proposal is accepted. Of the proposals prepared against one
\* state the first applied is accepted and the others are rejected after it.
C25_StaleProposalsRejected ==
    /\ \A i \in 1..3 : Counts[i] >= PreCounts[i] /\ PreCounts[i] >= prepared.counts[i]
    /\ Counts # prepared.counts =>
          /\ \A x \in prepared.owners : append_owner(x[1], x[2]).res # Ok
          /\ \A x \in prepared.permissions : append_permissions(x[1], x[2]).res # Ok
    /\ PreparedCall => (result = Ok <=> PreCounts = prepared.counts)

C25_Witness ==
    /\ call.op = "append_permissions"
    /\ PreparedCall
    /\ Len(pre.owners) > prepared.counts[2]
    /\ Len(pre.data) = prepared.counts[1]
    /\ Len(pre.permissions) = prepared.counts[3]
    /\ pre.owners[Len(pre.owners)].permissions_index = prepared.counts[3]
    /\ result = InvalidOwnersSuccessor(Len(owners))

(***************************************************************************)
(* Longer histories: the access decision and the point lookups.            *)
(***************************************************************************)
OwnerLookup ==
    \E index \in IndexInputs :
        Query([op |-> "owner", index |-> index], OptionOf(owner(index)))

PermissionsLookup ==
    \E index \in IndexInputs :
        Query([op |-> "permissions", index |-> index], OptionOf(permissions_at(index)))

\* Histories of one record more than in Spec, on an aggregate without entries.
NextHistory ==
    \/ AppendPermissions(AnchoredPermissions, MaxHistory + 1)
    \/ AppendOwner(AnchoredOwner, MaxHistory + 1)
    \/ CheckPermission
    \/ OwnerLookup
    \/ PermissionsLookup
    \/ Return

SpecHistory == Init /\ [][NextHistory]_vars

\* What the last owner record and the last snapshot alone decide.
DecidedByLast(requester, action) ==
    IF owners = <<>> THEN InvalidOwners
    ELSE IF owners[Len(owners)].public_key = requester THEN Ok
    ELSE IF permissions = <<>> THEN InvalidPermissions
    ELSE is_action_allowed(permissions[Len(permissions)], requester, action)

\* C26: the access decision is that of the last owner record and the last
\* snapshot: a grant of an earlier snapshot that the latest one does not have
\* has no effect, and once append_owner has installed a different owner the
\* previous owner is decided by the latest snapshot alone, or gets
\* InvalidPermissions when there is none.
C26_LatestRecordsDecide ==
    /\ \A requester \in PublicKeys, action \in Action :
          check_permission(requester, action) = DecidedByLast(requester, action)
    /\ call.op = "check_permission" =>
          result = DecidedByLast(call.requester, call.action)
    /\ (/\ call.op = "append_owner"
        /\ result = Ok
        /\ pre.owners # <<>>
        /\ pre.owners[Len(pre.owners)].public_key # call.owner.public_key) =>
          \A action \in Action :
              check_permission(pre.owners[Len(pre.owners)].public_key, action) =
                  IF permissions = <<>> THEN InvalidPermissions
                  ELSE is_action_allowed(permissions[Len(permissions)],
                                         pre.owners[Len(pre.owners)].public_key, action)

C26_Witness ==
    /\ call.op = "check_permission"
    /\ Len(permissions) > 1
    /\ Len(owners) > 0
    /\ ~LastOwnerIs(call.requester)
    /\ is_action_allowed(permissions[1], call.requester, call.action) = Ok
    /\ result # Ok

\* The history a point lookup reads.
LookedUp == IF call.op = "owner" THEN pre.owners ELSE pre.permissions

\* C28: owner(index) and permissions(index) return the element at the resolved
\* offset when it is smaller than the history length and nothing when the
\* index does not resolve or resolves to one past the end, as FromStart(len)
\* and FromEnd(0) do; FromEnd(1) returns the last element of a non-empty
\* history, and every index returns nothing on an empty one.
C28_PointLookups ==
    call.op \in {"owner", "permissions"} =>
        LET h == LookedUp
            at == to_absolute_index(call.index, Len(h))
        IN  /\ result = IF at # None /\ at[1] < Len(h)
                        THEN [tag |-> "Some", value |-> h[at[1] + 1]]
                        ELSE [tag |-> "None"]
            /\ call.index \in {FromStart(Len(h)), FromEnd(0)} => result = [tag |-> "None"]
            /\ (call.index = FromEnd(1) /\ h # <<>>)
                  => result = [tag |-> "Some", value |-> h[Len(h)]]
            /\ h = <<>> => result = [tag |-> "None"]

C28_Witness ==
    /\ call.op = "owner"
    /\ Len(owners) > 1
    /\ call.index = FromEnd(0)
    /\ result = [tag |-> "None"]

(***************************************************************************)
(* The dispatcher against the concrete aggregate.                          *)
(***************************************************************************)
\* C27: for every state, principal and action Data::check_permission returns
\* what check_permission of the wrapped aggregate returns, except for Read on
\* the two public flavours, where it returns Ok whatever the aggregate would
\* say; on the private flavours the two agree on Read too.
C27_DispatcherRefinesConcrete ==
    /\ \A requester \in PublicKeys, action \in Action :
          Data_check_permission(action, requester) =
              IF is_pub(address.kind) /\ action = "Read" THEN Ok
              ELSE check_permission(requester, action)
    /\ call.op = "Data::check_permission" =>
          /\ (is_pub(address.kind) /\ call.action = "Read") => result = Ok
          /\ ~(is_pub(address.kind) /\ call.action = "Read")
                => result = check_permission(call.requester, call.action)

C27_Witness ==
    /\ call.op = "Data::check_permission"
    /\ call.action = "Read"
    /\ ~is_pub(address.kind)
    /\ result = AccessDenied
    /\ check_permission(call.requester, "Read") = AccessDenied

(***************************************************************************)
(* Properties of get and of the stored anchors.                            *)
(***************************************************************************)
GetAnswers ==
    /\ (call.op = "append" /\ result = Ok) =>
          \A i \in DOMAIN call.entries :
              get(call.entries[i].key) = Some(call.entries[i].value)
    /\ \A key \in EntryKeys : get(key) = None <=> key \notin KeysOf(data)
    /\ call.op = "get" =>
          IF call.key \notin KeysOf(pre.data) THEN result = [tag |-> "None"]
          ELSE /\ result.tag = "Some"
               /\ [key |-> call.key, value |-> result.value]
                     \in {pre.data[i] : i \in DOMAIN pre.data}

GetKeeps == \A key \in EntryKeys : get(key) # None => get(key)' = get(key)

\* C29: after an accepted append get(k) returns v for every entry (k, v) of
\* the batch; a value that get(k) returns in one state it returns in every
\* later state, whatever appends follow; get(k) returns nothing exactly when
\* no stored entry has the key k.
C29_GetStable == []GetAnswers /\ [][GetKeeps]_vars

C29_Witness ==
    /\ call.op = "get"
    /\ Len(data) > 1
    /\ call.key = data[1].key
    /\ result = [tag |-> "Some", value |-> data[1].value]

\* C30: in every aggregate built from new() by accepted appends, along the
\* owner history entries_index and permissions_index never decrease, along the
\* permission history entries_index and owners_index never decrease, every
\* stored entries_index is at most the entry count, every owner record's
\* permissions_index at most the length of the permission history and every
\* snapshot's owners_index at most the length of the owner history.
C30_AnchorsConsistent ==
    /\ \A i, j \in DOMAIN owners :
          i <= j => /\ owners[i].entries_index <= owners[j].entries_index
                    /\ owners[i].permissions_index <= owners[j].permissions_index
    /\ \A i, j \in DOMAIN permissions :
          i <= j => /\ permissions[i].entries_index <= permissions[j].entries_index
                    /\ permissions[i].owners_index <= permissions[j].owners_index
    /\ \A i \in DOMAIN owners :
          /\ owners[i].entries_index <= Len(data)
          /\ owners[i].permissions_index <= Len(permissions)
    /\ \A i \in DOMAIN permissions :
          /\ permissions[i].entries_index <= Len(data)
          /\ permissions[i].owners_index <= Len(owners)

C30_Witness ==
    /\ Len(owners) > 0
    /\ Len(permissions) > 0
    /\ Len(data) > permissions[1].entries_index
    /\ permissions[1].entries_index > 0
    /\ permissions[1].owners_index > 0
    /\ owners[1].entries_index < permissions[1].entries_index

(***************************************************************************)
(* The order the anchors give to the two histories.                        *)
(***************************************************************************)
\* With Vec offsets j and k: the snapshot at k was there when the owner record
\* at j was made, and the other way round.
SnapshotFirst(j, k) == k < owners[j + 1].permissions_index

OwnerFirst(j, k) == j < permissions[k + 1].owners_index

\* C31: in every aggregate built from new() by accepted appends, for every
\* owner record at offset j and every snapshot at offset k exactly one of
\* k < owners[j].permissions_index and j < permissions[k].owners_index holds.
C31_OneInterleavingOrder ==
    \A j \in 0..(Len(owners) - 1), k \in 0..(Len(permissions) - 1) :
        SnapshotFirst(j, k) # OwnerFirst(j, k)

C31_Witness ==
    /\ Len(owners) > 1
    /\ Len(permissions) > 0
    /\ OwnerFirst(0, 0)
    /\ SnapshotFirst(1, 0)

(***************************************************************************)
(* Appends on the aggregate that shell returns.                            *)
(***************************************************************************)
\* The caller goes on with the aggregate it got from shell.
ContinueWithShell ==
    /\ call.op = "shell"
    /\ result.tag = "Ok"
    /\ address' = result.value.address
    /\ data' = result.value.data
    /\ permissions' = result.value.permissions
    /\ owners' = result.value.owners
    /\ call' = NoCall
    /\ result' = Ok
    /\ pre' = result.value
    /\ UNCHANGED prepared

NextShell ==
    \/ AppendUnseq(KeyBatches)
    \/ AppendPermissions(AnchoredPermissions, MaxHistory)
    \/ AppendOwner(AnchoredOwner, MaxHistory)
    \/ Shell
    \/ ContinueWithShell
    \/ Return

SpecShell == InitStale /\ [][NextShell]_vars

NonDecreasing(history) ==
    \A i, j \in DOMAIN history :
        i <= j => history[i].entries_index <= history[j].entries_index

\* C32 as stated: in every aggregate reachable by new(), accepted appends and
\* shell(), appends on an aggregate returned by shell included, the
\* entries_index values along the owner history and along the permission
\* history never decrease and never exceed the entry count, so that the filter
\* of shell selects a prefix of each history.
C32_ShellKeepsAnchorsOrdered ==
    /\ NonDecreasing(owners)
    /\ NonDecreasing(permissions)
    /\ \A i \in DOMAIN owners : owners[i].entries_index <= Len(data)
    /\ \A i \in DOMAIN permissions : permissions[i].entries_index <= Len(data)
    /\ \A t \in 0..Len(data) :
          /\ SelectSeq(owners, LAMBDA o : o.entries_index <= t) = LongestPrefix(owners, t)
          /\ SelectSeq(permissions, LAMBDA perm : perm.entries_index <= t)
                = LongestPrefix(permissions, t)

\* The call appended a batch without entries.
EmptyBatchCall == call.op = "append" /\ call.entries = <<>>

\* The owner record and the snapshot anchored at the counts before the call,
\* submitted at the positions of those counts, are accepted now.
AnchoredBeforeAccepted ==
    /\ \A o \in Owner :
          (o.entries_index = PreCounts[1] /\ o.permissions_index = PreCounts[3])
              => append_owner(o, PreCounts[2]).res = Ok
    /\ \A P \in Permissions :
          (P.entries_index = PreCounts[1] /\ P.owners_index = PreCounts[2])
              => append_permissions(P, PreCounts[3]).res = Ok

\* C33: a batch without entries is accepted by the uncounted append always and
\* by the counted append exactly when the expected count is the current one; an
\* accepted one leaves the aggregate as it was, the entry count included, so the
\* expected count it carried is still accepted by the counted append for every
\* batch of fresh keys, and the owner records and snapshots anchored at the
\* counts before it are still accepted.
C33_EmptyBatchAccepted ==
    EmptyBatchCall =>
        /\ UnseqCall => result = Ok
        /\ SeqCall => (result = Ok <=> call.last_entries_index = Len(pre.data))
        /\ result = Ok =>
              /\ Aggregate = pre
              /\ Counts = PreCounts
              /\ SeqCall =>
                    \A b \in Batches :
                        check_dup(data, b) = Ok
                            => append_seq(b, call.last_entries_index).res = Ok
              /\ AnchoredBeforeAccepted

C33_Witness ==
    /\ EmptyBatchCall
    /\ SeqCall
    /\ result = Ok
    /\ Len(data) > 0

(***************************************************************************)
(* Two callers of the uncounted append.                                    *)
(***************************************************************************)
\* Two callers have each prepared a batch.
BatchesPrepared == "batches" \in DOMAIN prepared

\* Two callers look at the aggregate and each prepares a batch that the
\* aggregate accepts as it is.
PrepareBatches ==
    /\ Idle
    /\ ~BatchesPrepared
    /\ \E A \in Batches, B \in Batches :
          /\ check_dup(data, A) = Ok
          /\ check_dup(data, B) = Ok
          /\ prepared' = [counts |-> Counts, owners |-> {}, permissions |-> {},
                          data |-> data, batches |-> <<A, B>>, sent |-> <<>>]
    /\ UNCHANGED <<address, data, permissions, owners, call, result, pre>>

\* One of the two callers submits its batch, once.
SubmitPrepared ==
    /\ Idle
    /\ BatchesPrepared
    /\ \E i \in {1, 2} :
          /\ \A n \in DOMAIN prepared.sent : prepared.sent[n] # i
          /\ LET entries == prepared.batches[i]
                 r == append_unseq(entries)
             IN  /\ data' = r.data
                 /\ result' = r.res
                 /\ call' = [op |-> "append", entries |-> entries]
          /\ prepared' = [prepared EXCEPT !.sent = Append(@, i)]
    /\ pre' = Aggregate
    /\ UNCHANGED <<address, permissions, owners>>

\* The stored entries are built first; from the preparation on, the two
\* callers are the only ones appending.
NextConcurrent ==
    \/ AppendUnseq(IF BatchesPrepared THEN {} ELSE KeyBatches)
    \/ PrepareBatches
    \/ SubmitPrepared
    \/ Return

SpecConcurrent == InitStale /\ [][NextConcurrent]_vars

\* The key and value pairs of a sequence of entries.
Mapping(d) == {<<d[i].key, d[i].value>> : i \in DOMAIN d}

\* The batch submitted first and the one submitted second.
FirstSent == prepared.batches[prepared.sent[1]]

SecondSent == prepared.batches[prepared.sent[2]]

SharedKeys == KeysOf(prepared.batches[1]) \cap KeysOf(prepared.batches[2]) # {}

\* C34: on an uncounted aggregate, two batches that each are free of duplicate
\* keys and of stored keys are handled so: the one submitted first is accepted;
\* when their keys are disjoint the second is accepted too, whichever went
\* first, and the aggregate ends with the count of the stored entries plus both
\* batches and with the key to value pairs of the stored entries and both
\* batches; when they share a key the second is refused with KeysExist and the
\* aggregate keeps the stored entries followed by the first batch.
C34_UncountedAppendsCommute ==
    (BatchesPrepared /\ Len(prepared.sent) > 0) =>
        /\ Len(prepared.sent) = 1 =>
              /\ call.op = "append" => result = Ok
              /\ data = prepared.data \o FirstSent
        /\ (Len(prepared.sent) = 2 /\ ~SharedKeys) =>
              /\ call.op = "append" => result = Ok
              /\ Len(data) = Len(prepared.data) + Len(prepared.batches[1])
                                + Len(prepared.batches[2])
              /\ Mapping(data) = Mapping(prepared.data)
                                    \cup Mapping(prepared.batches[1])
                                    \cup Mapping(prepared.batches[2])
              /\ NoDupKeys(data)
        /\ (Len(prepared.sent) = 2 /\ SharedKeys) =>
              /\ call.op = "append" =>
                    /\ result.tag = "KeysExist"
                    /\ KeysOf(result.dup) = KeysOf(FirstSent) \cap KeysOf(SecondSent)
              /\ data = prepared.data \o FirstSent

C34_Witness ==
    /\ BatchesPrepared
    /\ prepared.sent = <<2, 1>>
    /\ ~SharedKeys
    /\ prepared.data # <<>>
    /\ prepared.batches[1] # <<>>
    /\ prepared.batches[2] # <<>>
    /\ call.op = "append"
    /\ result = Ok

==============================================================================
